---- MODULE Spec2Model ----
(***************************************************************************)
(* A model of src/minesweeper.py: the Minesweeper board, the Sentence      *)
(* class and the knowledge-based player MinesweeperAI.                     *)
(*                                                                         *)
(* The board is fixed once (Minesweeper.__init__); the player is fed       *)
(* truthful observations add_knowledge(cell, nearby_mines(cell)) of cells  *)
(* that hold no mine, and is asked for moves between those calls.          *)
(* add_knowledge is modelled in the order of its code: lines 199-221 in    *)
(* one step, then the return of line 222 or one step per iteration of the  *)
(* loop of lines 225-236, then deduce_knowledge, then clean_knowledge; the *)
(* steps of one call are forced by pc and no other operation runs between  *)
(* them.                                                                   *)
(***************************************************************************)
EXTENDS Integers, Sequences, FiniteSets

\* Bounds of the model: the mines laid on a board, and the add_knowledge
\* calls of one run.
MaxMines == 2
MaxIngests == 3

\* The largest board, in cells, that MarkSpec draws sentences on.
MaxMarkCells == 6

\* The board sizes <<height, width>> the player is constructed with.
Grids == {<<1, 2>>, <<1, 3>>, <<2, 3>>, <<3, 3>>}

VARIABLES
    height,      \* MinesweeperAI.height (and Minesweeper.height)
    width,       \* MinesweeperAI.width (and Minesweeper.width)
    board,       \* Minesweeper.mines: the cells that hold a mine
    moves_made,  \* MinesweeperAI.moves_made
    mines,       \* MinesweeperAI.mines
    safes,       \* MinesweeperAI.safes
    knowledge,   \* MinesweeperAI.knowledge: a list of sentences
    pc,          \* position in the running operation, "idle" between calls
    idx,         \* position of the loop of lines 225-236 in knowledge
    last,        \* the query that returned last, "none" after add_knowledge
    result,      \* what that query returned
    ningest,     \* number of add_knowledge calls so far
    call         \* <<cell, count>> of the add_knowledge call that is running

vars == <<height, width, board, moves_made, mines, safes, knowledge, pc, idx, last, result,
          ningest, call>>

\* Python's None, as returned by the move queries.
None == <<>>

\* The cells (i, j) of the board.
Cells == (0 .. height - 1) \X (0 .. width - 1)

\* Sentence.__init__: a set of cells and a count.
Sentence(cells, count) == [cells |-> cells, count |-> count]

----------------------------------------------------------------------------
\* Minesweeper

\* Minesweeper.nearby_mines: the mines within one row and one column of
\* cell, in bounds, the cell itself ignored.
nearby_mines(cell) ==
    Cardinality({m \in board :
        /\ m # cell
        /\ cell[1] - 1 <= m[1] /\ m[1] <= cell[1] + 1
        /\ cell[2] - 1 <= m[2] /\ m[2] <= cell[2] + 1})

----------------------------------------------------------------------------
\* Sentence

\* Sentence.__eq__
Sentence_eq(a, b) == a.cells = b.cells /\ a.count = b.count

\* Sentence.known_mines: the cells when their number equals the count.
\* The method returns None otherwise; its only caller tests the result for
\* truth, which None and the empty set both fail, so {} stands for both.
known_mines(s) == IF Cardinality(s.cells) = s.count THEN s.cells ELSE {}

\* Sentence.known_safes taking a count of at most 1 for a count of 0.
known_safes_off_by_one(s) == IF s.count <= 1 THEN s.cells ELSE {}

\* Sentence.known_safes: the cells when the count is 0 (else None, as above).
known_safes(s) == IF s.count = 0 THEN s.cells ELSE {}

\* Sentence.mark_mine with the count left as it was (line 131 forgotten).
Sentence_mark_mine_keeps_count(s, cell) ==
    IF cell \in s.cells
    THEN Sentence(s.cells \ {cell}, s.count)
    ELSE s

\* Sentence.mark_mine
Sentence_mark_mine(s, cell) ==
    IF cell \in s.cells
    THEN Sentence(s.cells \ {cell}, s.count - 1)
    ELSE s

\* Sentence.mark_safe reducing the count as Sentence.mark_mine does.
Sentence_mark_safe_decrements(s, cell) ==
    IF cell \in s.cells
    THEN Sentence(s.cells \ {cell}, s.count - 1)
    ELSE s

\* Sentence.mark_safe
Sentence_mark_safe(s, cell) ==
    IF cell \in s.cells
    THEN Sentence(s.cells \ {cell}, s.count)
    ELSE s

----------------------------------------------------------------------------
\* MinesweeperAI.  The operators below work on a record
\* [mines, safes, knowledge] of the fields that marking changes.

\* MinesweeperAI.mark_mine with self.mines overwritten by the cell rather
\* than the cell added to it.
mark_mine_overwrites(ai, cell) ==
    [ai EXCEPT !.mines = {cell},
               !.knowledge = [k \in DOMAIN @ |-> Sentence_mark_mine(@[k], cell)]]

\* MinesweeperAI.mark_mine
mark_mine(ai, cell) ==
    [ai EXCEPT !.mines = @ \cup {cell},
               !.knowledge = [k \in DOMAIN @ |-> Sentence_mark_mine(@[k], cell)]]

\* MinesweeperAI.mark_safe
mark_safe(ai, cell) ==
    [ai EXCEPT !.safes = @ \cup {cell},
               !.knowledge = [k \in DOMAIN @ |-> Sentence_mark_safe(@[k], cell)]]

\* for cell in safes.copy(): self.mark_safe(cell)
RECURSIVE mark_safe_all(_, _)
mark_safe_all(ai, cells) ==
    IF cells = {} THEN ai
    ELSE LET cell == CHOOSE c \in cells : TRUE
         IN  mark_safe_all(mark_safe(ai, cell), cells \ {cell})

\* for cell in mines.copy(): self.mark_mine(cell)
RECURSIVE mark_mine_all(_, _)
mark_mine_all(ai, cells) ==
    IF cells = {} THEN ai
    ELSE LET cell == CHOOSE c \in cells : TRUE
         IN  mark_mine_all(mark_mine(ai, cell), cells \ {cell})

\* MinesweeperAI.get_neighbors: the list of the in-bounds cells (i - r, j - c)
\* for r and c in range(-1, 2), in the order the two loops append them.
get_neighbors(cell) ==
    LET around == [k \in 1 .. 9 |->
                      <<cell[1] - (((k - 1) \div 3) - 1),
                        cell[2] - (((k - 1) % 3) - 1)>>]
        inside(n) == 0 <= n[1] /\ n[1] < height /\ 0 <= n[2] /\ n[2] < width
    IN  SelectSeq(around, inside)

\* The elements of a list.
Range(seq) == {seq[k] : k \in DOMAIN seq}

\* Lines 199-218 without lines 215-218: with a count of 0 the neighbours
\* are not marked safe.
observe_skips_zero(ai, cell, count) ==
    LET a1 == mark_safe(ai, cell)
        neighbors == get_neighbors(cell)
        new_neighbors == {n \in Range(neighbors) : n \notin a1.safes}
    IN  IF count > 0
        THEN [a1 EXCEPT !.knowledge = Append(@, Sentence(new_neighbors, count))]
        ELSE a1

\* Lines 199-218 with the sentence built from all the neighbours, those in
\* safes too (line 210 without its test).
observe_all_neighbors(ai, cell, count) ==
    LET a1 == mark_safe(ai, cell)
        neighbors == get_neighbors(cell)
        new_neighbors == {n \in Range(neighbors) : n \notin a1.safes}
    IN  IF count > 0
        THEN [a1 EXCEPT !.knowledge = Append(@, Sentence(Range(neighbors), count))]
        ELSE mark_safe_all(a1, new_neighbors)

\* Lines 199-218 without line 203: the cell itself is not marked safe.
observe_forgets_cell(ai, cell, count) ==
    LET neighbors == get_neighbors(cell)
        new_neighbors == {n \in Range(neighbors) : n \notin ai.safes}
    IN  IF count > 0
        THEN [ai EXCEPT !.knowledge = Append(@, Sentence(new_neighbors, count))]
        ELSE mark_safe_all(ai, new_neighbors)

\* Lines 199-218 of add_knowledge on the record ai: mark the cell safe,
\* then add the sentence about its neighbours (count > 0) or mark them
\* safe (count = 0).
observe(ai, cell, count) ==
    LET a1 == mark_safe(ai, cell)
        neighbors == get_neighbors(cell)
        new_neighbors == {n \in Range(neighbors) : n \notin a1.safes}
    IN  IF count > 0
        THEN [a1 EXCEPT !.knowledge = Append(@, Sentence(new_neighbors, count))]
        ELSE mark_safe_all(a1, new_neighbors)

\* One iteration of the loop of lines 225-236 without lines 232-236: the
\* known mines are not marked.
sweep_sentence_safes_only(ai, k) ==
    mark_safe_all(ai, known_safes(ai.knowledge[k]))

\* One iteration of the loop of lines 225-236, on the k-th sentence.
sweep_sentence(ai, k) ==
    LET a1 == mark_safe_all(ai, known_safes(ai.knowledge[k]))
    IN  mark_mine_all(a1, known_mines(a1.knowledge[k]))

\* The loop of lines 225-236 from the k-th sentence to the last.
RECURSIVE sweep_from(_, _)
sweep_from(ai, k) ==
    IF k > Len(ai.knowledge) THEN ai
    ELSE sweep_from(sweep_sentence(ai, k), k + 1)

\* The deductions without the test of line 321 that the subsentence has
\* cells.
deductions_from_empty(K) ==
    LET n == Len(K)
        pairs == [p \in 1 .. n * n |-> <<((p - 1) \div n) + 1, ((p - 1) % n) + 1>>]
        hit(p) == /\ K[p[2]].cells # K[p[1]].cells
                  /\ K[p[2]].cells \subseteq K[p[1]].cells
        hits == SelectSeq(pairs, hit)
    IN  [h \in DOMAIN hits |->
            Sentence(K[hits[h][1]].cells \ K[hits[h][2]].cells,
                     K[hits[h][1]].count - K[hits[h][2]].count)]

\* The deductions with the count of the sentence kept (line 324 without
\* the subtraction).
deductions_keep_count(K) ==
    LET n == Len(K)
        pairs == [p \in 1 .. n * n |-> <<((p - 1) \div n) + 1, ((p - 1) % n) + 1>>]
        hit(p) == /\ K[p[2]].cells # K[p[1]].cells
                  /\ Cardinality(K[p[2]].cells) > 0
                  /\ K[p[2]].cells \subseteq K[p[1]].cells
        hits == SelectSeq(pairs, hit)
    IN  [h \in DOMAIN hits |->
            Sentence(K[hits[h][1]].cells \ K[hits[h][2]].cells,
                     K[hits[h][1]].count)]

\* MinesweeperAI.deduce_knowledge: the sentences deduced from the ordered
\* pairs (sentence, subsentence) in the order of the two loops, appended.
deductions(K) ==
    LET n == Len(K)
        pairs == [p \in 1 .. n * n |-> <<((p - 1) \div n) + 1, ((p - 1) % n) + 1>>]
        hit(p) == /\ K[p[2]].cells # K[p[1]].cells
                  /\ Cardinality(K[p[2]].cells) > 0
                  /\ K[p[2]].cells \subseteq K[p[1]].cells
        hits == SelectSeq(pairs, hit)
        symmetric_difference(a, b) == (a \ b) \cup (b \ a)
    IN  [h \in DOMAIN hits |->
            Sentence(symmetric_difference(K[hits[h][1]].cells, K[hits[h][2]].cells),
                     K[hits[h][1]].count - K[hits[h][2]].count)]

deduce_knowledge(K) == K \o deductions(K)

\* list.remove(x): the list without its first element equal to x.
RECURSIVE list_remove(_, _)
list_remove(L, x) ==
    IF L = <<>> THEN L
    ELSE IF Sentence_eq(Head(L).s, x.s) THEN Tail(L)
    ELSE <<Head(L)>> \o list_remove(Tail(L), x)

\* The inner loop of clean_knowledge (lines 341-344) from position j on;
\* the list iterator reads position j of the list as it is then.
RECURSIVE clean_inner(_, _, _)
clean_inner(L, sentence, j) ==
    IF j > Len(L) THEN L
    ELSE LET duplicates == L[j]
         IN  IF duplicates.id # sentence.id /\ sentence.s.cells = duplicates.s.cells
             THEN clean_inner(list_remove(L, duplicates), sentence, j + 1)
             ELSE clean_inner(L, sentence, j + 1)

\* The outer loop of clean_knowledge (lines 335-344) from position i on.
RECURSIVE clean_outer(_, _)
clean_outer(L, i) ==
    IF i > Len(L) THEN L
    ELSE LET sentence == L[i]
             L1 == IF Cardinality(sentence.s.cells) = 0
                   THEN list_remove(L, sentence)
                   ELSE L
         IN  clean_outer(clean_inner(L1, sentence, 1), i + 1)

\* MinesweeperAI.clean_knowledge.  Each sentence is an object of its own;
\* id is its identity (the test "duplicates is not sentence").
clean_knowledge(K) ==
    LET tagged == [k \in DOMAIN K |-> [id |-> k, s |-> K[k]]]
        kept == clean_outer(tagged, 1)
    IN  [k \in DOMAIN kept |-> kept[k].s]

\* MinesweeperAI.make_safe_move returning a safe cell without the test of
\* line 264 that it is no move made.
make_safe_move_any_safe ==
    IF Cardinality(safes) = Cardinality(moves_made)
    THEN {None}
    ELSE IF safes # {} THEN safes ELSE {None}

\* MinesweeperAI.make_safe_move: the values the call can return (the order
\* in which a set is iterated is not fixed).
make_safe_move ==
    IF Cardinality(safes) = Cardinality(moves_made)
    THEN {None}
    ELSE IF safes \ moves_made # {} THEN safes \ moves_made ELSE {None}

\* The guard of make_random_move counting the mines of the board in place
\* of the mines the player has found.
random_finished_counts_board == Cardinality(moves_made) = (width * height) - Cardinality(board)

\* The guard of make_random_move without the mines found subtracted.
random_finished_ignores_mines == Cardinality(moves_made) = (width * height)

\* The guard of make_random_move (lines 276-279).
random_finished == Cardinality(moves_made) = (width * height) - Cardinality(mines)

\* The test of line 287 without its second half, "move not in self.mines".
random_accepts_ignores_mines(move) == move \notin moves_made

\* The test that ends the loop of make_random_move (line 287).
random_accepts(move) == move \notin moves_made /\ move \notin mines

----------------------------------------------------------------------------
\* The state machine

\* Minesweeper.__init__ and MinesweeperAI.__init__
Init ==
    /\ \E g \in Grids : height = g[1] /\ width = g[2]
    /\ board \in {b \in SUBSET Cells : Cardinality(b) <= MaxMines}
    /\ moves_made = {}
    /\ mines = {}
    /\ safes = {}
    /\ knowledge = <<>>
    /\ pc = "idle"
    /\ idx = 0
    /\ last = "none"
    /\ result = None
    /\ ningest = 0
    /\ call = None

\* add_knowledge(cell, count), lines 199-221, for a cell without a mine
\* and its true count.
AddKnowledge ==
    /\ pc = "idle"
    /\ ningest < MaxIngests
    /\ \E cell \in Cells \ board :
          LET ai == observe([mines |-> mines, safes |-> safes, knowledge |-> knowledge],
                            cell, nearby_mines(cell))
          IN  /\ moves_made' = moves_made \cup {cell}
              /\ mines' = ai.mines
              /\ safes' = ai.safes
              /\ knowledge' = ai.knowledge
              /\ call' = <<cell, nearby_mines(cell)>>
              /\ IF Len(ai.knowledge) < 1
                 THEN pc' = "return" /\ idx' = 0
                 ELSE pc' = "sweep" /\ idx' = 1
    /\ last' = "none"
    /\ result' = None
    /\ ningest' = ningest + 1
    /\ UNCHANGED <<height, width, board>>

\* add_knowledge, line 222: the call returns, there being no knowledge.
Return ==
    /\ pc = "return"
    /\ pc' = "idle"
    /\ call' = None
    /\ UNCHANGED <<height, width, board, moves_made, mines, safes, knowledge, idx, last, result,
                   ningest>>

\* add_knowledge, one iteration of the loop of lines 225-236.
Sweep ==
    /\ pc = "sweep"
    /\ LET ai == sweep_sentence([mines |-> mines, safes |-> safes, knowledge |-> knowledge],
                                idx)
       IN  /\ mines' = ai.mines
           /\ safes' = ai.safes
           /\ knowledge' = ai.knowledge
    /\ IF idx < Len(knowledge)
       THEN pc' = "sweep" /\ idx' = idx + 1
       ELSE pc' = "deduce" /\ idx' = 0
    /\ UNCHANGED <<height, width, board, moves_made, last, result, ningest, call>>

\* add_knowledge, line 246.
Deduce ==
    /\ pc = "deduce"
    /\ knowledge' = deduce_knowledge(knowledge)
    /\ pc' = "clean"
    /\ UNCHANGED <<height, width, board, moves_made, mines, safes, idx, last, result, ningest,
                   call>>

\* add_knowledge, line 249, after which the call returns.
Clean ==
    /\ pc = "clean"
    /\ knowledge' = clean_knowledge(knowledge)
    /\ pc' = "idle"
    /\ call' = None
    /\ UNCHANGED <<height, width, board, moves_made, mines, safes, idx, last, result, ningest>>

\* make_safe_move() recording the cell it returns as a move made.
MakeSafeMove_records_move ==
    /\ pc = "idle"
    /\ result' \in make_safe_move
    /\ moves_made' = moves_made \cup (IF result' = None THEN {} ELSE {result'})
    /\ last' = "safe"
    /\ UNCHANGED <<height, width, board, mines, safes, knowledge, pc, idx, ningest, call>>

\* make_safe_move()
MakeSafeMove ==
    /\ pc = "idle"
    /\ result' \in make_safe_move
    /\ last' = "safe"
    /\ UNCHANGED <<height, width, board, moves_made, mines, safes, knowledge, pc, idx, ningest,
                   call>>

\* make_random_move(), lines 276-279: return None, or enter the loop.
MakeRandomMove ==
    /\ pc = "idle"
    /\ IF random_finished
       THEN pc' = "idle" /\ last' = "random" /\ result' = None
       ELSE pc' = "random" /\ last' = "none" /\ result' = None
    /\ UNCHANGED <<height, width, board, moves_made, mines, safes, knowledge, idx, ningest, call>>

\* make_random_move(), one iteration of the loop of lines 282-288 that
\* draws a move the test accepts, and returns it.
RandomAccept ==
    /\ pc = "random"
    /\ \E move \in Cells :
          /\ random_accepts(move)
          /\ result' = move
    /\ last' = "random"
    /\ pc' = "idle"
    /\ UNCHANGED <<height, width, board, moves_made, mines, safes, knowledge, idx, ningest, call>>

\* make_random_move(), one iteration of the loop that draws a move the
\* test rejects: the loop goes round.
RandomReject ==
    /\ pc = "random"
    /\ \E move \in Cells : ~random_accepts(move)
    /\ UNCHANGED vars

Next ==
    \/ AddKnowledge
    \/ Return
    \/ Sweep
    \/ Deduce
    \/ Clean
    \/ MakeSafeMove
    \/ MakeRandomMove
    \/ RandomAccept
    \/ RandomReject

Spec == Init /\ [][Next]_vars

\* The same with fair random draws: random.randrange gives every cell a
\* positive chance at every draw, so the loop of make_random_move does not
\* go round for ever while a cell the test accepts exists.
FairSpec == Spec /\ WF_vars(RandomAccept)

----------------------------------------------------------------------------
\* Marking on its own.  MarkSpec applies MinesweeperAI.mark_mine and
\* MinesweeperAI.mark_safe, once, to a player that holds two sentences
\* drawn from every set of cells of the board and every count up to
\* MaxMines, whether add_knowledge could have built them or not.

\* Sentence(cells, count) for every set of cells and every such count.
Sentences == {Sentence(cs, n) : cs \in SUBSET Cells, n \in 0..MaxMines}

MarkInit ==
    /\ \E g \in Grids :
          /\ g[1] * g[2] <= MaxMarkCells
          /\ height = g[1]
          /\ width = g[2]
    /\ board = {}
    /\ moves_made = {}
    /\ mines = {}
    /\ safes = {}
    /\ \E s1 \in Sentences, s2 \in Sentences : knowledge = <<s1, s2>>
    /\ pc = "idle"
    /\ idx = 0
    /\ last = "none"
    /\ result = None
    /\ ningest = 0
    /\ call = None

\* mark_mine(cell) on a player that has marked nothing yet.
MarkMine ==
    /\ mines = {}
    /\ safes = {}
    /\ \E cell \in Cells :
          LET ai == mark_mine([mines |-> mines, safes |-> safes, knowledge |-> knowledge],
                              cell)
          IN  /\ mines' = ai.mines
              /\ safes' = ai.safes
              /\ knowledge' = ai.knowledge
    /\ UNCHANGED <<height, width, board, moves_made, pc, idx, last, result, ningest, call>>

\* mark_safe(cell) on a player that has marked nothing yet.
MarkSafe ==
    /\ mines = {}
    /\ safes = {}
    /\ \E cell \in Cells :
          LET ai == mark_safe([mines |-> mines, safes |-> safes, knowledge |-> knowledge],
                              cell)
          IN  /\ mines' = ai.mines
              /\ safes' = ai.safes
              /\ knowledge' = ai.knowledge
    /\ UNCHANGED <<height, width, board, moves_made, pc, idx, last, result, ningest, call>>

MarkNext ==
    \/ MarkMine
    \/ MarkSafe

MarkSpec == MarkInit /\ [][MarkNext]_vars

----------------------------------------------------------------------------
\* Properties

\* No add_knowledge call is running: every call made so far has returned.
Returned == pc \in {"idle", "random"}

\* C1 (soundness): after every truthful add_knowledge call on a fixed board,
\* every cell in mines holds a mine of the board and no cell in safes does.
C1_Soundness ==
    Returned => (mines \subseteq board /\ safes \cap board = {})

\* C1 witness: calls have returned with a mine deduced and with a safe cell
\* deduced that was never probed.
C1_Witness ==
    /\ pc = "idle"
    /\ ningest >= 2
    /\ mines # {}
    /\ safes \ moves_made # {}

\* C2: after any add_knowledge call returns, mines and safes share no cell.
C2_Disjoint ==
    Returned => mines \cap safes = {}

\* C2 witness: a call has returned with both sets non-empty and sentences
\* still held.
C2_Witness ==
    /\ pc = "idle"
    /\ ningest >= 1
    /\ mines # {}
    /\ safes # {}
    /\ knowledge # <<>>

\* C3: after any add_knowledge call returns, no cell of mines or safes is
\* in the cells of a sentence of knowledge.
C3_FullyReduced ==
    Returned =>
        \A k \in DOMAIN knowledge : knowledge[k].cells \cap (mines \cup safes) = {}

\* C4: when an add_knowledge call returns, no sentence of knowledge yields
\* through known_mines() a cell that is not in mines, or through
\* known_safes() a cell that is not in safes.
C4_Fixpoint ==
    Returned =>
        \A k \in DOMAIN knowledge :
            /\ known_mines(knowledge[k]) \subseteq mines
            /\ known_safes(knowledge[k]) \subseteq safes

\* C5: after clean_knowledge, the last step of add_knowledge, knowledge
\* holds no sentence without cells and no two sentences with the same cells.
C5_Cleaned ==
    Returned =>
        /\ \A k \in DOMAIN knowledge : knowledge[k].cells # {}
        /\ \A j, k \in DOMAIN knowledge :
              j # k => knowledge[j].cells # knowledge[k].cells

\* Every cell without a mine has been probed.
AllProbed == moves_made = Cells \ board

\* C6 as claimed: make_random_move returns None whenever every cell
\* without a mine has been probed, whether or not all mines are known
\* (stated for the boards that have a cell without a mine to probe).
C6_NoneWhenAllProbed ==
    (pc = "idle" /\ last = "random" /\ AllProbed /\ moves_made # {}) => result = None

\* C6 as amended: make_random_move returns None exactly when the number of
\* moves made is height * width less the number of mines the player has
\* found; with every cell without a mine probed, what it returns otherwise
\* is a cell that holds a mine the player has not found.
C6_NoneWhenKnownMinesLeft ==
    /\ pc = "random" => Cardinality(moves_made) + Cardinality(mines) # height * width
    /\ (pc = "idle" /\ last = "random") =>
          /\ result = None <=>
                Cardinality(moves_made) + Cardinality(mines) = height * width
          /\ (AllProbed /\ result # None) => result \in board \ mines

\* C6 witness: make_random_move has returned a mine of the board with every
\* other cell probed, after at least one add_knowledge call.
C6_Witness ==
    /\ pc = "idle"
    /\ last = "random"
    /\ ningest >= 1
    /\ AllProbed
    /\ result \in board

\* C7: make_safe_move returns a cell of safes that is no move made whenever
\* there is one, and None exactly when there is none.
C7_SafeMove ==
    (pc = "idle" /\ last = "safe") =>
        IF safes \ moves_made # {}
        THEN result \in safes \ moves_made
        ELSE result = None

\* C7 witness: make_safe_move has returned a cell while other safe cells
\* were moves made already.
C7_Witness ==
    /\ pc = "idle"
    /\ last = "safe"
    /\ result # None
    /\ moves_made # {}

\* The in-bounds cells within one row and one column of cell, cell excluded.
Around(cell) ==
    {n \in Cells :
        /\ n # cell
        /\ cell[1] - 1 <= n[1] /\ n[1] <= cell[1] + 1
        /\ cell[2] - 1 <= n[2] /\ n[2] <= cell[2] + 1}

\* C8: for every cell of the board get_neighbors returns exactly the
\* in-bounds cells within one row and one column of it, the cell itself
\* excluded (3 for a corner, 5 for an edge, 8 for an interior cell).
C8_Neighbors ==
    \A cell \in Cells :
        /\ Range(get_neighbors(cell)) = Around(cell)
        /\ Len(get_neighbors(cell)) = Cardinality(Around(cell))

\* The ordered pairs <<a, b>> of distinct sentences of the list K with the
\* cells of K[b] non-empty and a strict subset of those of K[a].
SubsetPairs(K) ==
    {p \in (DOMAIN K) \X (DOMAIN K) :
        /\ p[1] # p[2]
        /\ K[p[2]].cells # {}
        /\ K[p[2]].cells \subseteq K[p[1]].cells
        /\ K[p[2]].cells # K[p[1]].cells}

\* The sentence subset deduction derives from the pair p of K.
Derived(K, p) ==
    [cells |-> K[p[1]].cells \ K[p[2]].cells,
     count |-> K[p[1]].count - K[p[2]].count]

\* C9: the deduction step changes no sentence it found, adds one sentence
\* {A.cells \ B.cells, A.count - B.count} for every ordered pair (A, B) of
\* distinct sentences with B.cells non-empty and a strict subset of
\* A.cells, and adds nothing else.
C9_Deduction ==
    [][pc = "deduce" =>
        /\ Len(knowledge') = Len(knowledge) + Cardinality(SubsetPairs(knowledge))
        /\ \A k \in DOMAIN knowledge : knowledge'[k] = knowledge[k]
        /\ \A p \in SubsetPairs(knowledge) :
              \E k \in (Len(knowledge) + 1) .. Len(knowledge') :
                  knowledge'[k] = Derived(knowledge, p)
        /\ \A k \in (Len(knowledge) + 1) .. Len(knowledge') :
              \E p \in SubsetPairs(knowledge) :
                  knowledge'[k] = Derived(knowledge, p)]_vars

\* C9 witness: deduce_knowledge has run and the list ends with a sentence
\* derived from two sentences before it.
C9_Witness ==
    /\ pc = "clean"
    /\ \E p \in SubsetPairs(knowledge) :
          /\ p[1] < Len(knowledge)
          /\ p[2] < Len(knowledge)
          /\ knowledge[Len(knowledge)] = Derived(knowledge, p)

\* C10: in every state, between the steps of a call too, every sentence
\* of knowledge has 0 <= count <= number of its cells.
C10_CountInRange ==
    \A k \in DOMAIN knowledge :
        /\ 0 <= knowledge[k].count
        /\ knowledge[k].count <= Cardinality(knowledge[k].cells)

\* C10 witness: inside a call, after the loop has marked a mine and before
\* deduce_knowledge, with a sentence reduced by a mine still undecided and a
\* sentence emptied.
C10_Witness ==
    /\ pc = "deduce"
    /\ mines # {}
    /\ \E k \in DOMAIN knowledge :
          /\ knowledge[k].count >= 1
          /\ knowledge[k].count < Cardinality(knowledge[k].cells)
    /\ \E k \in DOMAIN knowledge : knowledge[k].cells = {}

\* C11: whenever make_random_move is past its guard some cell of the board
\* is neither a move made nor a mine found, and under fair draws the loop
\* returns.
C11_RandomMoveReturns ==
    /\ [](pc = "random" => \E move \in Cells : random_accepts(move))
    /\ (pc = "random" ~> (pc = "idle" /\ last = "random"))

\* C11 witness: make_random_move is in its loop after an add_knowledge call
\* has found a mine, so that some draws are rejected.
C11_Witness ==
    /\ pc = "random"
    /\ ningest >= 1
    /\ mines # {}

\* C12: whenever make_random_move returns a cell, the cell is on the board,
\* is no move made and is no mine found.
C12_RandomMoveAllowed ==
    (pc = "idle" /\ last = "random" /\ result # None) =>
        /\ result \in Cells
        /\ result \notin moves_made
        /\ result \notin mines

\* C12 witness: make_random_move has returned a cell while moves had been
\* made and a mine had been found.
C12_Witness ==
    /\ pc = "idle"
    /\ last = "random"
    /\ result # None
    /\ moves_made # {}
    /\ mines # {}

\* C13: add_knowledge(cell, 0) puts every neighbour of cell on the board
\* into safes, takes those neighbours (and cell) out of every sentence it
\* finds, counts unchanged, and appends no sentence for cell; until the call
\* returns the neighbours stay in safes and out of every sentence.
C13_ZeroCount ==
    [][/\ (pc = "idle" /\ call' # None /\ call'[2] = 0) =>
            /\ Around(call'[1]) \subseteq safes'
            /\ Len(knowledge') = Len(knowledge)
            /\ \A k \in DOMAIN knowledge :
                  /\ knowledge'[k].cells =
                        knowledge[k].cells \ (Around(call'[1]) \cup {call'[1]})
                  /\ knowledge'[k].count = knowledge[k].count
       /\ (call # None /\ call[2] = 0) =>
            /\ Around(call[1]) \subseteq safes'
            /\ \A k \in DOMAIN knowledge' :
                  knowledge'[k].cells \cap Around(call[1]) = {}]_vars

\* C13 witness: a call with count 0 is about to return, having taken cells
\* out of sentences that are still held.
C13_Witness ==
    /\ pc = "clean"
    /\ call # None
    /\ call[2] = 0
    /\ Around(call[1]) \subseteq safes
    /\ \E k \in DOMAIN knowledge : knowledge[k].cells # {}

\* The loop of lines 225-236 and then clean_knowledge, run on the fields
\* [mines, safes, knowledge] with no new observation.
SweepClean(ai) ==
    LET a1 == sweep_from(ai, 1)
    IN  [a1 EXCEPT !.knowledge = clean_knowledge(@)]

\* C14: in the state in which an add_knowledge call returned, running the
\* loop that marks and clean_knowledge again changes neither mines, safes
\* nor knowledge (moves_made is not written by either), and running them
\* once more changes nothing either.
C14_Idempotent ==
    (pc = "idle" /\ ningest >= 1) =>
        LET ai == [mines |-> mines, safes |-> safes, knowledge |-> knowledge]
        IN  /\ SweepClean(ai) = ai
            /\ SweepClean(SweepClean(ai)) = SweepClean(ai)

\* C15: a call of make_safe_move or make_random_move, whatever it returns,
\* leaves safes, mines, moves_made and knowledge as they were.  (The steps
\* taken while no add_knowledge call runs, other than the start of one, are
\* the steps of the two queries.)
C15_QueriesReadOnly ==
    [][(Returned /\ ningest' = ningest) =>
          UNCHANGED <<safes, mines, moves_made, knowledge>>]_vars

\* C15 witness: a query has returned a cell while sentences were held.
C15_Witness ==
    /\ pc = "idle"
    /\ last \in {"safe", "random"}
    /\ result # None
    /\ knowledge # <<>>

\* C16: on the 1x2 board whose only mine is at (0,1), once
\* add_knowledge((0,0), 1) has returned as the first call, (0,1) is in
\* mines, (0,0) is in safes and in moves_made, knowledge is empty, and
\* make_safe_move and make_random_move both return None.
C16_OneByTwo ==
    (/\ height = 1 /\ width = 2 /\ board = {<<0, 1>>}
     /\ ningest = 1 /\ Returned) =>
        /\ <<0, 1>> \in mines
        /\ <<0, 0>> \in safes
        /\ <<0, 0>> \in moves_made
        /\ knowledge = <<>>
        /\ make_safe_move = {None}
        /\ pc = "idle"
        /\ last \in {"safe", "random"} => result = None

\* C16 witness: on that board, after that call, make_random_move has
\* returned.
C16_Witness ==
    /\ height = 1 /\ width = 2 /\ board = {<<0, 1>>}
    /\ ningest = 1
    /\ moves_made = {<<0, 0>>}
    /\ pc = "idle"
    /\ last = "random"

\* C17: marking a cell c as a mine, or as safe, in a player that holds any
\* two sentences leaves a sentence as it is when c is not one of its cells;
\* when it is, exactly c is removed from the cells, mark_mine takes 1 from
\* the count and mark_safe leaves the count; no sentence is added or
\* dropped.
C17_Reduction ==
    [][ /\ Len(knowledge') = Len(knowledge)
        /\ \A c \in Cells : \A k \in DOMAIN knowledge :
              LET s == knowledge[k]
                  t == knowledge'[k]
              IN  /\ (c \notin mines /\ mines' = mines \cup {c}) =>
                        IF c \notin s.cells
                        THEN t = s
                        ELSE t.cells = s.cells \ {c} /\ t.count = s.count - 1
                  /\ (c \notin safes /\ safes' = safes \cup {c}) =>
                        IF c \notin s.cells
                        THEN t = s
                        ELSE t.cells = s.cells \ {c} /\ t.count = s.count
      ]_vars

\* C17 witness: a cell was marked as a mine; it was taken out of the first
\* sentence, whose count of 0 is now -1, and the second sentence, which
\* holds other cells, stands with its count.
C17_Witness ==
    /\ Cardinality(mines) = 1
    /\ safes = {}
    /\ Len(knowledge) = 2
    /\ knowledge[1].cells # {}
    /\ knowledge[1].count = -1
    /\ Cardinality(knowledge[2].cells) >= 2
    /\ knowledge[2].count = MaxMines

\* C18: a cell add_knowledge was called with is in the cells of no sentence
\* afterwards, neither when the call returns nor in any state of the calls
\* that follow, their deductions included.
C18_MovesNotInSentences ==
    \A k \in DOMAIN knowledge : knowledge[k].cells \cap moves_made = {}

\* C18 witness: deduce_knowledge has run in a third call and sentences with
\* cells are held, next to the cells of three calls.
C18_Witness ==
    /\ pc = "clean"
    /\ ningest >= 3
    /\ Cardinality(moves_made) >= 3
    /\ Len(knowledge) >= 3
    /\ \A k \in DOMAIN knowledge : knowledge[k].cells # {}

\* C19: in every state moves_made is a subset of safes, so that the test
\* len(safes) == len(moves_made) of make_safe_move holds exactly when the
\* two sets are equal.
C19_MovesAreSafe ==
    /\ moves_made \subseteq safes
    /\ (Cardinality(safes) = Cardinality(moves_made)) <=> (safes = moves_made)

\* C19 witness: make_safe_move has returned None on the size test, the two
\* sets being equal, after calls that found a mine.
C19_Witness ==
    /\ pc = "idle"
    /\ last = "safe"
    /\ result = None
    /\ ningest >= 2
    /\ safes = moves_made
    /\ mines # {}

\* C20: no step retracts a fact: moves_made, safes and mines each hold after
\* a step, of add_knowledge or of a query, every cell they held before it.
C20_OnlyGrow ==
    [][/\ moves_made \subseteq moves_made'
       /\ safes \subseteq safes'
       /\ mines \subseteq mines']_vars

\* C20 witness: a third call has returned with two mines found and safe
\* cells beyond the moves made.
C20_Witness ==
    /\ pc = "idle"
    /\ ningest >= 3
    /\ Cardinality(mines) >= 2
    /\ Cardinality(safes) > Cardinality(moves_made)

====
